---- MODULE Spec2Model ----
(***************************************************************************)
(* Model of the YoScore ML proctoring service (src/ml-service): the voice   *)
(* activity debouncer of the audio analyzer, the audio and face analyzers, *)
(* the violation rules of the request handlers and the handlers' control   *)
(* flow (capability gate, temporary files, transcription timeout).         *)
(*                                                                         *)
(* Numbers: times are kept as sample counts (a time t in seconds is the    *)
(* integer t * sr), confidences and levels in thousandths.  Floating point *)
(* rounding is not modelled: comparisons are exact.                        *)
(***************************************************************************)
EXTENDS Integers, Sequences, FiniteSets, TLC

\* ------------------------------------------------------------------ bounds
\* Largest number of analysis frames of a clip in the debouncer model.
MaxFrames == 27

\* Sample rates of the decoded clips (librosa.load(..., sr=None) keeps the file's).
SampleRates == {8000, 16000}

\* ------------------------------------------------------------------ helpers
Min(a, b) == IF a <= b THEN a ELSE b
Max(a, b) == IF a >= b THEN a ELSE b
Abs(a) == IF a >= 0 THEN a ELSE -a

\* ------------------------------------- audio_analyzer.py: _detect_speech
\* int(0.025 * sr) and int(0.01 * sr)
frame_length(sr) == (25 * sr) \div 1000
hop_length(sr) == (10 * sr) \div 1000

\* len(range(0, len(y) - frame_length, hop_length))
EnergyFrames(len_y, sr) ==
    IF len_y - frame_length(sr) <= 0 THEN 0
    ELSE (len_y - frame_length(sr) + hop_length(sr) - 1) \div hop_length(sr)

\* librosa.stft(y, hop_length=hop_length, ...) with the default center=True
StftFrames(len_y, sr) == 1 + (len_y \div hop_length(sr))

\* min_length = min(len(energy), len(speech_energy)): the length of speech_frames
NumFrames(len_y, sr) == Min(EnergyFrames(len_y, sr), StftFrames(len_y, sr))

\* `duration >= 0.2` for a duration of d samples at rate sr (d / sr >= 1/5)
LongEnough(d, sr) == 5 * d >= sr

\* The loop's local variables before the first frame.
VadStart == [in_speech |-> FALSE, start |-> 0, consecutive_frames |-> 0,
             speech_intervals |-> << >>]

\* One iteration of `for i, is_speech in enumerate(speech_frames)`.
\* start and the interval ends are sample counts: i * hop_length (/ sr).
VadStep(s, i, is_speech, sr) ==
    IF is_speech
    THEN [s EXCEPT !.consecutive_frames = @ + 1,
                   !.start = IF s.in_speech THEN @ ELSE i * hop_length(sr),
                   !.in_speech = TRUE]
    ELSE IF s.in_speech
         THEN [s EXCEPT !.consecutive_frames = 0,
                        !.speech_intervals =
                            IF LongEnough(i * hop_length(sr) - s.start, sr)
                            THEN Append(@, <<s.start, i * hop_length(sr)>>)
                            ELSE @,
                        !.in_speech = FALSE]
         ELSE [s EXCEPT !.consecutive_frames = 0]

\* The block after the loop: `if in_speech: end = len(y) / sr ...`.
VadTail(s, len_y, sr) ==
    IF s.in_speech /\ LongEnough(len_y - s.start, sr)
    THEN [s EXCEPT !.speech_intervals = Append(@, <<s.start, len_y>>)]
    ELSE s

\* _detect_speech on the flags speech_frames of a clip of len_y samples.
RECURSIVE VadLoop(_, _, _, _)
VadLoop(s, i, speech_frames, sr) ==
    IF i > Len(speech_frames) THEN s
    ELSE VadLoop(VadStep(s, i - 1, speech_frames[i], sr), i + 1, speech_frames, sr)

DetectSpeech(speech_frames, len_y, sr) ==
    VadTail(VadLoop(VadStart, 1, speech_frames, sr), len_y, sr).speech_intervals

\* ------------------------------------------------------------ dictionaries
\* A Python dict is a function on its keys; d.get(k, default):
Get(d, k, default) == IF k \in DOMAIN d THEN d[k] ELSE default
\* An Optional value is << >> (None) or <<v>>.
None == << >>
Some(v) == <<v>>

\* ------------------------------------------------------------------- text
\* Strings are sequences of one-character strings.
UpperCase == <<"A","B","C","D","E","F","G","H","I","J","K","L","M",
               "N","O","P","Q","R","S","T","U","V","W","X","Y","Z">>
LowerCase == <<"a","b","c","d","e","f","g","h","i","j","k","l","m",
               "n","o","p","q","r","s","t","u","v","w","x","y","z">>

\* str.lower()
LowerChar(c) ==
    IF \E i \in 1..Len(UpperCase) : UpperCase[i] = c
    THEN LowerCase[CHOOSE i \in 1..Len(UpperCase) : UpperCase[i] = c]
    ELSE c
Lower(s) == [i \in 1..Len(s) |-> LowerChar(s[i])]

\* `keyword in transcript`: substring search
Contains(s, k) ==
    \E i \in 0..(Len(s) - Len(k)) : \A j \in 1..Len(k) : s[i + j] = k[j]

\* len([x.strip() for x in s.split('.') if x.strip()]): the segments between
\* full stops that hold something other than blanks
RECURSIVE CountSegments(_, _, _)
CountSegments(s, i, open) ==
    IF i > Len(s) THEN (IF open THEN 1 ELSE 0)
    ELSE IF s[i] = "." THEN (IF open THEN 1 ELSE 0) + CountSegments(s, i + 1, FALSE)
    ELSE CountSegments(s, i + 1, open \/ s[i] # " ")
Sentences(s) == CountSegments(s, 1, FALSE)

\* AudioAnalyzer.__init__: self.suspicious_keywords
suspicious_keywords ==
    << <<"h","e","l","p">>, <<"a","n","s","w","e","r">>,
       <<"s","o","l","u","t","i","o","n">>, <<"c","h","e","a","t">>,
       <<"g","o","o","g","l","e">>, <<"s","e","a","r","c","h">>,
       <<"c","o","p","y">>, <<"p","a","s","t","e">>, <<"p","h","o","n","e">>,
       <<"f","r","i","e","n","d">>, <<"w","h","a","t","s","a","p","p">>,
       <<"t","e","l","e","g","r","a","m">>, <<"l","o","o","k"," ","u","p">>,
       <<"f","i","n","d">> >>

\* FoundKeywords appending what was heard in place of the keyword.
RECURSIVE FoundKeywords_AppendsTranscript(_, _)
FoundKeywords_AppendsTranscript(transcript, i) ==
    IF i > Len(suspicious_keywords) THEN << >>
    ELSE (IF Contains(transcript, suspicious_keywords[i])
          THEN <<transcript>> ELSE << >>)
         \o FoundKeywords_AppendsTranscript(transcript, i + 1)

\* `for keyword in self.suspicious_keywords: if keyword in transcript: append`
RECURSIVE FoundKeywords(_, _)
FoundKeywords(transcript, i) ==
    IF i > Len(suspicious_keywords) THEN << >>
    ELSE (IF Contains(transcript, suspicious_keywords[i])
          THEN <<suspicious_keywords[i]>> ELSE << >>)
         \o FoundKeywords(transcript, i + 1)

\* The transcript markers the analyzer writes itself.
\* "[Unintelligible speech]"
Unintelligible ==
    <<"[","U","n","i","n","t","e","l","l","i","g","i","b","l","e"," ",
      "s","p","e","e","c","h","]">>
\* f"[Speech API error: {e}]"
ApiError(why) ==
    <<"[","S","p","e","e","c","h"," ","A","P","I"," ","e","r","r","o","r",":"," ">>
    \o why \o <<"]">>
\* sr.RequestError('Speech API timeout')
ApiTimeout == <<"S","p","e","e","c","h"," ","A","P","I"," ","t","i","m","e","o","u","t">>
\* the message of a RequestError raised by recognize_google itself
ApiFailed == <<"r","e","c","o","g","n","i","t","i","o","n"," ","r","e","q","u","e","s","t",
               " ","f","a","i","l","e","d">>

\* ------------------------------------ audio_analyzer.py: the signals record
\* Levels and confidences are thousandths.
AudioDefaults(duration_ms) ==
    [has_speech |-> FALSE, speech_confidence |-> 0, voice_count |-> 0,
     noise_level |-> 0, suspicious_keywords |-> << >>, transcript |-> << >>,
     duration_ms |-> duration_ms, analysis_mode |-> "local_vad"]

\* results['noise_level'] = float(min(avg_rms * 10, 1.0)), avg_rms in thousandths
NoiseLevel(avg_rms) == Min(avg_rms * 10, 1000)

\* AfterVad counting one voice before it looks at the intervals.
AfterVad_CountsVoice(results, speech_intervals) ==
    IF Len(speech_intervals) > 0
    THEN [results EXCEPT !.has_speech = TRUE, !.speech_confidence = 680,
                         !.voice_count = 1]
    ELSE [results EXCEPT !.has_speech = FALSE, !.voice_count = 1]

\* Lines 106-111: the local decision.
AfterVad(results, speech_intervals) ==
    IF Len(speech_intervals) > 0
    THEN [results EXCEPT !.has_speech = TRUE, !.speech_confidence = 680,
                         !.voice_count = 1]
    ELSE [results EXCEPT !.has_speech = FALSE]

\* Lines 121-133: a transcript came back.
AfterTranscript(results, transcript) ==
    [results EXCEPT !.analysis_mode = "cloud_transcription",
                    !.transcript = Lower(transcript),
                    !.speech_confidence = 850,
                    !.suspicious_keywords = FoundKeywords(Lower(transcript), 1),
                    !.voice_count = Min(Sentences(Lower(transcript)), 3)]

\* Lines 135-137: sr.UnknownValueError
AfterUnknownValue(results) ==
    [results EXCEPT !.speech_confidence = 450, !.transcript = Unintelligible]

\* AfterRequestError lowering the confidence as the UnknownValueError branch does.
AfterRequestError_LowersConfidence(results, why) ==
    [results EXCEPT !.speech_confidence = 450, !.transcript = ApiError(why)]

\* Lines 138-139: sr.RequestError
AfterRequestError(results, why) ==
    [results EXCEPT !.transcript = ApiError(why)]

\* Lines 144-145: any other exception
WithError(results) == results @@ [error |-> "exception"]

\* ------------------------------------------ app.py: the audio violations
\* AudioViolations with the rules chained by elif: the first match ends it.
AudioViolations_ShortCircuits(results) ==
    IF Get(results, "has_speech", FALSE)
    THEN <<[type |-> "speech_detected",
            confidence |-> Get(results, "speech_confidence", 850)]>>
    ELSE IF Get(results, "voice_count", 0) > 1
    THEN <<[type |-> "multiple_voices",
            confidence |-> Get(results, "voice_confidence", 700)]>>
    ELSE IF Get(results, "noise_level", 0) > 700
    THEN <<[type |-> "high_background_noise", confidence |-> 650]>>
    ELSE IF Len(Get(results, "suspicious_keywords", << >>)) > 0
    THEN <<[type |-> "suspicious_conversation", confidence |-> 800]>>
    ELSE << >>

\* Lines 195-229
AudioViolations(results) ==
    (IF Get(results, "has_speech", FALSE)
     THEN <<[type |-> "speech_detected",
             confidence |-> Get(results, "speech_confidence", 850)]>>
     ELSE << >>)
    \o (IF Get(results, "voice_count", 0) > 1
        THEN <<[type |-> "multiple_voices",
                confidence |-> Get(results, "voice_confidence", 700)]>>
        ELSE << >>)
    \o (IF Get(results, "noise_level", 0) > 700
        THEN <<[type |-> "high_background_noise", confidence |-> 650]>>
        ELSE << >>)
    \o (IF Len(Get(results, "suspicious_keywords", << >>)) > 0
        THEN <<[type |-> "suspicious_conversation", confidence |-> 800]>>
        ELSE << >>)

\* ------------------------------------------ face_detector.py: the analyzer
\* Coordinates, confidences and coverage are thousandths.

\* max(seq, key=...): the index of the first of the largest keys
RECURSIVE ArgMaxFrom(_, _, _)
ArgMaxFrom(keys, i, best) ==
    IF i > Len(keys) THEN best
    ELSE ArgMaxFrom(keys, i + 1, IF keys[i] > keys[best] THEN i ELSE best)
ArgMax(keys) == ArgMaxFrom(keys, 2, 1)

\* np.sqrt, rounded down to a whole thousandth
ISqrt(n) == CHOOSE r \in 0..1800 : r * r <= n /\ n < (r + 1) * (r + 1)

\* GazeFromFaceBox with the threshold itself counted as looking away.
GazeFromFaceBox_AtThreshold(x_center) ==
    LET horizontal_offset == x_center - 500
        abs_offset == Abs(horizontal_offset)
        looking_away == abs_offset >= 120
    IN [looking_away |-> looking_away,
        direction |-> IF looking_away
                      THEN (IF horizontal_offset < 0 THEN "left" ELSE "right")
                      ELSE "center",
        horizontal_offset |-> abs_offset,
        confidence |-> Min(950, 700 + (abs_offset * 15) \div 10)]

\* _gaze_from_face_box(x_center)
GazeFromFaceBox(x_center) ==
    LET horizontal_offset == x_center - 500
        abs_offset == Abs(horizontal_offset)
        looking_away == abs_offset > 120
    IN [looking_away |-> looking_away,
        direction |-> IF looking_away
                      THEN (IF horizontal_offset < 0 THEN "left" ELSE "right")
                      ELSE "center",
        horizontal_offset |-> abs_offset,
        confidence |-> Min(950, 700 + (abs_offset * 15) \div 10)]

\* FaceAnalysis(): the dataclass defaults
FaceAnalysis ==
    [face_count |-> 0, gaze_direction |-> None, eyes_closed |-> FALSE,
     face_coverage |-> 0, confidence |-> 0, face_box |-> None]

\* _to_dict
ToDict(analysis, mode) ==
    [face_count |-> analysis.face_count, face_box |-> analysis.face_box,
     gaze_direction |-> analysis.gaze_direction,
     eyes_closed |-> analysis.eyes_closed,
     face_coverage |-> analysis.face_coverage,
     confidence |-> analysis.confidence,
     has_face |-> analysis.face_count > 0, detector_mode |-> mode]

\* A cascade box is <<x, y, w, h>> in pixels: int(f[2]) * int(f[3])
BoxAreas(faces) == [i \in 1..Len(faces) |-> faces[i][3] * faces[i][4]]

\* _analyze_with_opencv: img.faces is what face_cascade.detectMultiScale finds,
\* img.eyes[i] the number of eyes eye_cascade finds inside face i, eye_loaded
\* whether eye_cascade is there and not empty.
AnalyzeWithOpencv(img, eye_loaded) ==
    LET results == [FaceAnalysis EXCEPT !.face_count = Len(img.faces)]
    IN IF Len(img.faces) > 0
       THEN LET p == ArgMax(BoxAreas(img.faces))
                f == img.faces[p]
                x_center == ((2 * f[1] + f[3]) * 1000) \div (2 * img.frame_w)
                y_center == ((2 * f[2] + f[4]) * 1000) \div (2 * img.frame_h)
                eyes_closed == IF eye_loaded THEN img.eyes[p] = 0 ELSE FALSE
            IN ToDict([results EXCEPT
                   !.face_box = Some([x_center |-> x_center, y_center |-> y_center,
                                      width |-> (f[3] * 1000) \div img.frame_w,
                                      height |-> (f[4] * 1000) \div img.frame_h]),
                   !.confidence = 700,
                   !.gaze_direction = Some(GazeFromFaceBox(x_center)),
                   !.eyes_closed = eyes_closed,
                   !.face_coverage = IF eyes_closed THEN 200 ELSE 0], "opencv")
       ELSE ToDict(results, "opencv")

\* _analyze_gaze_direction: landmarks is a function from landmark index to
\* [x, y, z].  eyes_center_x - nose_tip.x is kept times four.
AnalyzeGazeDirection(landmarks) ==
    LET eyes4 == landmarks[133].x + landmarks[33].x
                 + landmarks[362].x + landmarks[263].x
        nose4 == 4 * landmarks[1].x
        offset4 == Abs(eyes4 - nose4)
        looking_away == offset4 > 400
    IN [looking_away |-> looking_away,
        direction |-> IF looking_away
                      THEN (IF eyes4 < nose4 THEN "left" ELSE "right")
                      ELSE "center",
        horizontal_offset |-> offset4 \div 4,
        confidence |-> Min(900, 700 + offset4 \div 2)]

\* _distance
Distance(point1, point2) ==
    ISqrt((point1.x - point2.x) * (point1.x - point2.x)
          + (point1.y - point2.y) * (point1.y - point2.y)
          + (point1.z - point2.z) * (point1.z - point2.z))

\* _calculate_ear, as the fraction <<vertical, horizontal>>; 0.0 is <<0, 1>>
CalculateEar(top, bottom, left, right) ==
    IF Distance(left, right) = 0 THEN <<0, 1>>
    ELSE <<Distance(top, bottom), Distance(left, right)>>

\* _check_eyes_closed: (left_ear + right_ear) / 2 < 0.25
CheckEyesClosed(landmarks) ==
    LET left_ear == CalculateEar(landmarks[159], landmarks[145],
                                 landmarks[33], landmarks[133])
        right_ear == CalculateEar(landmarks[386], landmarks[374],
                                  landmarks[362], landmarks[263])
    IN 2 * (left_ear[1] * right_ear[2] + right_ear[1] * left_ear[2])
           < left_ear[2] * right_ear[2]

\* _calculate_face_coverage
key_landmarks == <<1, 33, 133, 362, 263, 17, 61>>
CalculateFaceCoverage(landmarks, bbox) ==
    LET visible == {i \in 1..Len(key_landmarks) :
                      LET lm == landmarks[key_landmarks[i]]
                      IN /\ bbox.xmin <= lm.x /\ lm.x <= bbox.xmin + bbox.width
                         /\ bbox.ymin <= lm.y /\ lm.y <= bbox.ymin + bbox.height}
        coverage == 1000 - (Cardinality(visible) * 1000) \div Len(key_landmarks)
    IN Max(0, Min(1000, coverage))

\* FaceMesh(max_num_faces=2, refine_landmarks=True, ...): no static_image_mode,
\* so the mesh takes the frames it is given for one video stream.  A face it
\* holds from the frame before is looked for where it was: inside the box of
\* its eye corners and chin.
max_num_faces == 2
InRoi(held, face) ==
    /\ held[33].x <= face[1].x /\ face[1].x <= held[263].x
    /\ held[33].y <= face[1].y /\ face[1].y <= held[17].y
Tracked(track, face) == \E i \in 1..Len(track) : InRoi(track[i], face)

\* What face_mesh.process may return for a frame whose faces a fresh mesh
\* finds as `found`: those, when it holds nothing or loses track
\* (min_tracking_confidence).  Else it follows the faces it holds and runs
\* detection only while it holds fewer than max_num_faces: the faces followed
\* from the frame before and the ones detection adds, in either order, or
\* the followed ones alone when it holds max_num_faces.
MeshOutcomes(track, found) ==
    LET followed == SelectSeq(found, LAMBDA f : Tracked(track, f))
        added == SelectSeq(found, LAMBDA f : ~Tracked(track, f))
    IN IF Len(track) = 0 THEN {found}
       ELSE IF Len(track) < max_num_faces
       THEN {found, followed \o added, added \o followed}
       ELSE {found, followed}

\* A detection is [score, xmin, ymin, width, height]: float(d.score[0])
Scores(detections) == [i \in 1..Len(detections) |-> detections[i].score]

\* AnalyzeWithMediapipe running the mesh also when nothing was detected.
AnalyzeWithMediapipe_MeshAlways(img) ==
    LET found == IF Len(img.detections) > 0
                 THEN [FaceAnalysis EXCEPT
                          !.face_count = Len(img.detections),
                          !.confidence = img.detections[ArgMax(Scores(img.detections))].score]
                 ELSE FaceAnalysis
    IN IF Len(img.mesh) > 0
       THEN ToDict([found EXCEPT
                !.gaze_direction = Some(AnalyzeGazeDirection(img.mesh[1])),
                !.eyes_closed = CheckEyesClosed(img.mesh[1])], "mediapipe")
       ELSE ToDict(found, "mediapipe")

\* _analyze_with_mediapipe: img.detections is what face_detection.process
\* finds, img.mesh what face_mesh.process finds (multi_face_landmarks).
AnalyzeWithMediapipe(img) ==
    IF Len(img.detections) > 0
    THEN LET best_detection == img.detections[ArgMax(Scores(img.detections))]
             found == [FaceAnalysis EXCEPT
                 !.face_count = Len(img.detections),
                 !.confidence = best_detection.score,
                 !.face_box = Some(
                     [x_center |-> best_detection.xmin + best_detection.width \div 2,
                      y_center |-> best_detection.ymin + best_detection.height \div 2,
                      width |-> best_detection.width,
                      height |-> best_detection.height])]
         IN IF Len(img.mesh) > 0
            THEN LET face_landmarks == img.mesh[1]
                 IN ToDict([found EXCEPT
                        !.gaze_direction = Some(AnalyzeGazeDirection(face_landmarks)),
                        !.eyes_closed = CheckEyesClosed(face_landmarks),
                        !.face_coverage =
                            CalculateFaceCoverage(face_landmarks, best_detection)],
                        "mediapipe")
            ELSE ToDict(found, "mediapipe")
    ELSE ToDict(FaceAnalysis, "mediapipe")

\* The record returned when cv2.imdecode gives None.
DecodeError == [error |-> "Could not decode image", face_count |-> 0, has_face |-> FALSE]

\* _analyze_frame_sync for a detector in the given mode
AnalyzeFrameSync(mode, eye_loaded, img) ==
    IF ~img.decodable THEN DecodeError
    ELSE IF mode = "mediapipe" THEN AnalyzeWithMediapipe(img)
    ELSE AnalyzeWithOpencv(img, eye_loaded)

\* ------------------------------------------- app.py: the face violations
\* FaceCountRule with the second test off by one: no_face for a single face too.
FaceCountRule_OffByOne(results) ==
    IF Get(results, "face_count", 0) > 1
    THEN <<[type |-> "multiple_faces", confidence |-> Get(results, "confidence", 800)]>>
    ELSE IF Get(results, "face_count", 0) <= 1
         THEN <<[type |-> "no_face", confidence |-> 900]>>
         ELSE << >>

\* Lines 95-111: the two rules on face_count
FaceCountRule(results) ==
    IF Get(results, "face_count", 0) > 1
    THEN <<[type |-> "multiple_faces", confidence |-> Get(results, "confidence", 800)]>>
    ELSE IF Get(results, "face_count", 0) = 0
         THEN <<[type |-> "no_face", confidence |-> 900]>>
         ELSE << >>

\* FaceViolations with the coverage rule at 0.15 instead of 0.3.
FaceViolations_LowThreshold(results) ==
    FaceCountRule(results)
    \o (IF Len(Get(results, "gaze_direction", None)) > 0
           /\ Get(results.gaze_direction[1], "looking_away", FALSE)
        THEN <<[type |-> "looking_away",
                confidence |-> Get(results.gaze_direction[1], "confidence", 700)]>>
        ELSE << >>)
    \o (IF Get(results, "eyes_closed", FALSE)
        THEN <<[type |-> "eyes_closed",
                confidence |-> Get(results, "eye_confidence", 800)]>>
        ELSE << >>)
    \o (IF Get(results, "face_coverage", 0) > 150
        THEN <<[type |-> "face_covered",
                confidence |-> Get(results, "coverage_confidence", 750)]>>
        ELSE << >>)

\* Lines 94-137
FaceViolations(results) ==
    FaceCountRule(results)
    \o (IF Len(Get(results, "gaze_direction", None)) > 0
           /\ Get(results.gaze_direction[1], "looking_away", FALSE)
        THEN <<[type |-> "looking_away",
                confidence |-> Get(results.gaze_direction[1], "confidence", 700)]>>
        ELSE << >>)
    \o (IF Get(results, "eyes_closed", FALSE)
        THEN <<[type |-> "eyes_closed",
                confidence |-> Get(results, "eye_confidence", 800)]>>
        ELSE << >>)
    \o (IF Get(results, "face_coverage", 0) > 300
        THEN <<[type |-> "face_covered",
                confidence |-> Get(results, "coverage_confidence", 750)]>>
        ELSE << >>)

\* ----------------------------- object_detector.py and the object violations
\* detect_objects: the stub's constant answer
DetectObjects ==
    [objects |-> << >>, object_count |-> 0, screen_count |-> 1, screen_confidence |-> 0]

forbidden_categories == {"cell phone", "book", "laptop", "monitor", "tablet"}

ObjectViolations(results) ==
    LET objs == Get(results, "objects", << >>)
        forbidden_objects == SelectSeq(objs,
            LAMBDA o : o.category \in forbidden_categories /\ o.confidence > 600)
    IN (IF Len(forbidden_objects) > 0
        THEN <<[type |-> "forbidden_object",
                confidence |->
                    forbidden_objects[ArgMax(Scores([i \in 1..Len(forbidden_objects) |->
                        [score |-> forbidden_objects[i].confidence]]))].confidence]>>
        ELSE << >>)
       \o (IF Get(results, "screen_count", 0) > 1
           THEN <<[type |-> "multiple_screens",
                   confidence |-> Get(results, "screen_confidence", 750)]>>
           ELSE << >>)

\* ------------------------------------------------------------------ state
VARIABLES
    vad_pc,      \* "loop" | "tail" | "done" | "off": position in _detect_speech
    vad_in,      \* [sr, len_y, n]: the clip under analysis
    vad_i,       \* index of the next frame of speech_frames
    vad,         \* the loop's local variables
    vad_runs,    \* [cur, long, max]: the active runs of the flags read so far
    host,            \* the environment app.py is imported in
    started,         \* app.py has been imported: lines 56-58 have run
    face_detector,   \* None or Some([mode, face_cascade, eye_cascade])
    audio_analyzer,  \* None or Some([enable_cloud_transcription])
    object_detector, \* None or Some([_ready])
    req,         \* per request: [chan, session_id, timestamp, payload]
    pc,          \* per request: the handler's position
    loc,         \* per request: the handler's and the analyzer's locals
    files,       \* the temporary files that exist: [name, by, kind]
    backend,     \* per request: the recognize_google call, "idle" | "running" | its outcome
    health,      \* None or Some(the answer of the last health_check)
    mesh_track   \* the landmark sets self.face_mesh holds from its last frame

vadvars == <<vad_pc, vad_in, vad_i, vad, vad_runs>>
capvars == <<host, started, face_detector, audio_analyzer, object_detector>>
srvvars == <<capvars, req, pc, loc, files, backend, health, mesh_track>>
vars == <<vadvars, srvvars>>

\* The request identifiers.
NumReqs == 2
Reqs == 1..NumReqs

\* A handler's locals on entry.  status is the HTTP status of the answer (0:
\* none yet), exc the exception in flight inside _analyze_audio_sync, stt how
\* the transcription attempt ended.  read, invoked, made and fault record what
\* has happened: the upload was read, the analyzer was called, the number of
\* temporary files created, and the class of the fault met.
LocStart ==
    [status |-> 0, tmp_path |-> None, tmp_wav_path |-> None, results |-> None,
     exc |-> "none", stt |-> "none", violations |-> << >>, response |-> None,
     read |-> FALSE, invoked |-> FALSE, made |-> 0, fault |-> "none"]

NoRequest == [chan |-> "none"]

\* No request and no analyzer: the state of the service's variables while only
\* the debouncer is looked at.
NoService ==
    /\ host = [ENABLE_FACE_DETECTOR |-> FALSE]
    /\ started = FALSE
    /\ face_detector = None /\ audio_analyzer = None /\ object_detector = None
    /\ req = [r \in Reqs |-> NoRequest]
    /\ pc = [r \in Reqs |-> "absent"]
    /\ loc = [r \in Reqs |-> LocStart]
    /\ files = {}
    /\ backend = [r \in Reqs |-> "idle"]
    /\ health = None /\ mesh_track = << >>

\* The debouncer's variables while the service is looked at.
NoVad ==
    /\ vad_pc = "off"
    /\ vad_in = [sr |-> 0, len_y |-> 0, n |-> 0]
    /\ vad_i = 0
    /\ vad = VadStart
    /\ vad_runs = [cur |-> 0, long |-> 0, max |-> 0]

\* ------------------------------------------------- debouncer as a process
\* Clip lengths giving exactly k frames: the shortest and the longest.
InitVad ==
    /\ vad_pc = "loop"
    /\ \E sr \in SampleRates, k \in 1..MaxFrames, d \in {0, 1} :
          LET len_y == k * hop_length(sr) + frame_length(sr)
                       - (IF d = 1 THEN hop_length(sr) - 1 ELSE 0)
          IN vad_in = [sr |-> sr, len_y |-> len_y, n |-> NumFrames(len_y, sr)]
    /\ vad_i = 0
    /\ vad = VadStart
    /\ vad_runs = [cur |-> 0, long |-> 0, max |-> 0]
    /\ NoService

\* 200 ms of 10 ms hops: min_speech_frames = int(0.2 * sr / hop_length)
min_speech_frames(sr) == (2 * sr) \div (10 * hop_length(sr))

\* The runs of the flags, kept apart from the loop's own variables: cur is the
\* length of the run in progress, long the number of finished runs of at least
\* min_speech_frames frames, max the longest run seen.
RunsAfter(r, is_speech, sr) ==
    IF is_speech
    THEN [r EXCEPT !.cur = @ + 1, !.max = Max(@, r.cur + 1)]
    ELSE [r EXCEPT !.cur = 0,
                   !.long = IF r.cur >= min_speech_frames(sr) THEN @ + 1 ELSE @]

VadFrame ==
    /\ vad_pc = "loop"
    /\ vad_i < vad_in.n
    /\ \E is_speech \in BOOLEAN :
          /\ vad' = VadStep(vad, vad_i, is_speech, vad_in.sr)
          /\ vad_runs' = RunsAfter(vad_runs, is_speech, vad_in.sr)
    /\ vad_i' = vad_i + 1
    /\ UNCHANGED <<vad_pc, vad_in, srvvars>>

VadLoopEnd ==
    /\ vad_pc = "loop"
    /\ vad_i = vad_in.n
    /\ vad_pc' = "tail"
    /\ UNCHANGED <<vad_in, vad_i, vad, vad_runs, srvvars>>

VadReturn ==
    /\ vad_pc = "tail"
    /\ vad' = VadTail(vad, vad_in.len_y, vad_in.sr)
    /\ vad_runs' = RunsAfter(vad_runs, FALSE, vad_in.sr)
    /\ vad_pc' = "done"
    /\ UNCHANGED <<vad_in, vad_i, srvvars>>

NextVad == VadFrame \/ VadLoopEnd \/ VadReturn

SpecVad == InitVad /\ [][NextVad]_vars

\* C2: every interval _detect_speech returns is a run of at least 20 active
\* frames (200 ms) and every shorter run is dropped, the run still active at
\* the end of the clip included: the intervals are exactly the runs of at
\* least min_speech_frames frames, and has_speech is true iff there is one.
C2_Debounce ==
    vad_pc = "done" =>
        /\ Len(vad.speech_intervals) = vad_runs.long
        /\ (Len(vad.speech_intervals) > 0) = (vad_runs.max >= min_speech_frames(vad_in.sr))

\* ------------------------------------------------------------------ inputs
\* Most words of a transcript, and most faces of an image.
MaxPieces == 2
MaxFaces == 2

\* Transcripts are made of these pieces: a capitalised keyword, a keyword, the
\* two halves of the keyword "look up", a full stop, a blank, a short sentence.
Pieces == { <<"H","e","l","p">>, <<"f","i","n","d">>, <<"l","o","o","k">>,
            <<" ","u","p">>, <<".">>, <<" ">>, <<"o","k",".">> }
RECURSIVE Phrases(_)
Phrases(n) ==
    IF n = 0 THEN { << >> }
    ELSE Phrases(n - 1) \cup { p \o q : p \in Phrases(n - 1), q \in Pieces }

\* pre inactive frames, run active frames, post inactive frames
Flags(pre, run, post) == [i \in 1..(pre + run + post) |-> i > pre /\ i <= pre + run]

\* An audio upload: whether pydub can decode it, the decoded clip (rate,
\* samples, the flags of its frames, mean RMS in thousandths) and the words
\* spoken in it.  The clip is the longest one with Len(flags) frames.
AudioClip(sr, flags, avg_rms, said) ==
    [decodable |-> TRUE, sr |-> sr,
     len_y |-> Len(flags) * hop_length(sr) + frame_length(sr),
     speech_frames |-> flags, avg_rms |-> avg_rms, said |-> said]
Undecodable ==
    [decodable |-> FALSE, sr |-> 16000, len_y |-> 0, speech_frames |-> << >>,
     avg_rms |-> 0, said |-> << >>]
\* A WAV file sampled at 50 Hz: int(0.01 * sr) is 0.
LowRate ==
    [decodable |-> TRUE, sr |-> 50, len_y |-> 100, speech_frames |-> << >>,
     avg_rms |-> 75, said |-> << >>]

RmsLevels == {0, 70, 75, 150}
QuietFlags == { Flags(0, 0, 30), Flags(10, 10, 10) }
SpeechFlags == { Flags(2, 25, 3), Flags(5, 20, 5) }

AudioPayloads ==
    {Undecodable, LowRate}
    \cup { AudioClip(16000, f, rms, << >>) : f \in QuietFlags, rms \in RmsLevels }
    \cup { AudioClip(16000, Flags(10, 10, 10), 75, <<"H","e","l","p">>) }
    \cup { AudioClip(16000, f, rms, said) :
             f \in SpeechFlags, rms \in {20, 75}, said \in Phrases(MaxPieces) }

\* A landmark set of a face around (cx, cy): the nose tip dx to the side of the
\* middle of the eyes, the eyelids 2 * open apart, the eyes 100 wide.
Point(x, y) == [x |-> x, y |-> y, z |-> 0]
Landmarks(cx, cy, dx, open) ==
    (1 :> Point(cx + dx, cy)) @@ (33 :> Point(cx - 150, cy - 100))
    @@ (133 :> Point(cx - 50, cy - 100)) @@ (362 :> Point(cx + 50, cy - 100))
    @@ (263 :> Point(cx + 150, cy - 100))
    @@ (159 :> Point(cx - 100, cy - 100 - open))
    @@ (145 :> Point(cx - 100, cy - 100 + open))
    @@ (386 :> Point(cx + 100, cy - 100 - open))
    @@ (374 :> Point(cx + 100, cy - 100 + open))
    @@ (17 :> Point(cx, cy + 150)) @@ (61 :> Point(cx - 60, cy + 120))

\* Sequences of at most n elements of S.
RECURSIVE SeqsUpTo(_, _)
SeqsUpTo(S, n) ==
    IF n = 0 THEN { << >> }
    ELSE SeqsUpTo(S, n - 1) \cup { Append(q, x) : q \in SeqsUpTo(S, n - 1), x \in S }

\* An image is what the detectors find in it.  Cascade boxes in a 200 x 200
\* frame (detectMultiScale's minSize is 60 x 60), each with its number of eyes.
CascadeFaces ==
    { <<60, 60, 80, 80>>, <<100, 60, 80, 80>>, <<0, 40, 100, 100>>, <<84, 60, 80, 80>> }
NearFace == [score |-> 900, xmin |-> 300, ymin |-> 300, width |-> 400, height |-> 400]
FarFace == [score |-> 600, xmin |-> 0, ymin |-> 0, width |-> 300, height |-> 300]
Detections == {NearFace, FarFace}
MeshFaces ==
    { Landmarks(500, 500, 0, 20), Landmarks(500, 500, 150, 20),
      Landmarks(500, 500, 0, 10), Landmarks(150, 150, -150, 20),
      Landmarks(500, 600, 0, 20), Landmarks(600, 600, 0, 20) }

Image(faces, eyes, detections, mesh) ==
    [decodable |-> TRUE, frame_w |-> 200, frame_h |-> 200, faces |-> faces,
     eyes |-> eyes, detections |-> detections, mesh |-> mesh]
UndecodableImage ==
    [decodable |-> FALSE, frame_w |-> 0, frame_h |-> 0, faces |-> << >>,
     eyes |-> << >>, detections |-> << >>, mesh |-> << >>]

FaceImages ==
    {UndecodableImage}
    \cup { img \in { Image(f, e, << >>, << >>) :
                       f \in SeqsUpTo(CascadeFaces, MaxFaces),
                       e \in SeqsUpTo({0, 2}, MaxFaces) } : Len(img.eyes) = Len(img.faces) }
    \cup { Image(<< >>, << >>, d, m) :
             d \in SeqsUpTo(Detections, MaxFaces),
             m \in SeqsUpTo(MeshFaces, Min(MaxFaces, max_num_faces)) }

Request(chan, r, payload) ==
    [chan |-> chan, session_id |-> r, timestamp |-> r, duration_ms |-> 10000,
     payload |-> payload]

\* The requests of the whole-service specification: a few of each channel for
\* the first two, an object request for every further one.
ServiceRequests(r) ==
    IF r > 2 THEN { Request("object", r, UndecodableImage) } ELSE
    { Request("audio", r, p) :
        p \in {Undecodable, LowRate,
               AudioClip(16000, Flags(2, 25, 3), 75, <<"o","k",".","H","e","l","p">>)} }
    \cup { Request("face", r, p) :
        p \in {UndecodableImage,
               Image(<< <<100, 60, 80, 80>> >>, <<0>>, << >>, << >>),
               Image(<< >>, << >>, <<NearFace>>, <<Landmarks(500, 500, 0, 20)>>),
               Image(<< >>, << >>, <<NearFace, FarFace>>,
                     <<Landmarks(150, 150, -150, 10), Landmarks(500, 500, 0, 20)>>)} }
    \cup { Request("object", r, UndecodableImage) }

\* --------------------------------------------------- app.py: module import
\* A host is what the import finds: the ENABLE_ flags, what each factory does
\* (FaceDetector() ends in "mediapipe" mode when FACE_DETECTOR_BACKEND asks for
\* it and the solutions API loads, else in "opencv" mode with cascades that cv2
\* leaves empty when their files cannot be read; a factory raises when an
\* import fails), and AUDIO_TRANSCRIPTION_MODE.
Host(ef, ea, eo, face, face_cascade, eye_cascade, audio, mode, object) ==
    [ENABLE_FACE_DETECTOR |-> ef, ENABLE_AUDIO_ANALYZER |-> ea,
     ENABLE_OBJECT_DETECTOR |-> eo, face_build |-> face,
     face_cascade |-> face_cascade, eye_cascade |-> eye_cascade,
     audio_build |-> audio, transcription_mode |-> mode, object_build |-> object]

\* FaceDetector.__init__
BuildFaceDetector(h) ==
    IF h.face_build = "mediapipe"
    THEN [mode |-> "mediapipe", face_cascade |-> "none", eye_cascade |-> "none"]
    ELSE [mode |-> "opencv", face_cascade |-> h.face_cascade,
          eye_cascade |-> h.eye_cascade]
\* AudioAnalyzer.__init__
BuildAudioAnalyzer(h) ==
    [enable_cloud_transcription |-> h.transcription_mode = "google"]
\* ObjectDetector.__init__
BuildObjectDetector(h) == [ready |-> TRUE]

\* _safe_init(name, factory) if the flag is set, else None
SafeInit(enabled, raises, detector) ==
    IF enabled /\ ~raises THEN Some(detector) ELSE None

\* FaceDetector.is_ready, AudioAnalyzer.is_ready, ObjectDetector.is_ready
FaceIsReady(d) == IF d.mode = "mediapipe" THEN TRUE ELSE d.face_cascade = "ok"
AudioIsReady(a) == TRUE
ObjectIsReady(o) == o.ready

\* `x is None or not x.is_ready()`
FaceUnavailable == face_detector = None \/ ~FaceIsReady(face_detector[1])
AudioUnavailable == audio_analyzer = None \/ ~AudioIsReady(audio_analyzer[1])
ObjectUnavailable == object_detector = None \/ ~ObjectIsReady(object_detector[1])

\* Lines 56-58
Startup ==
    /\ ~started
    /\ started' = TRUE
    /\ face_detector' = SafeInit(host.ENABLE_FACE_DETECTOR,
                                 host.face_build = "raises", BuildFaceDetector(host))
    /\ audio_analyzer' = SafeInit(host.ENABLE_AUDIO_ANALYZER,
                                  host.audio_build = "raises", BuildAudioAnalyzer(host))
    /\ object_detector' = SafeInit(host.ENABLE_OBJECT_DETECTOR,
                                   host.object_build = "raises", BuildObjectDetector(host))
    /\ UNCHANGED <<vadvars, host, health, mesh_track, req, pc, loc, files, backend>>

\* health_check: bool(x and x.is_ready()) for each analyzer, and a reason for
\* each one that is enabled and not live.
HealthAnswer ==
    LET face_live == ~FaceUnavailable
        audio_live == ~AudioUnavailable
        object_live == ~ObjectUnavailable
    IN [status |-> "healthy", mode |-> "two_phase_lite",
        detectors |-> [face |-> face_live, audio |-> audio_live,
                       object |-> object_live],
        flags |-> [enable_face_detector |-> host.ENABLE_FACE_DETECTOR,
                   enable_audio_analyzer |-> host.ENABLE_AUDIO_ANALYZER,
                   enable_object_detector |-> host.ENABLE_OBJECT_DETECTOR],
        degraded_reasons |->
            (IF host.ENABLE_FACE_DETECTOR /\ ~face_live
             THEN <<"face_detector_unavailable">> ELSE << >>)
            \o (IF host.ENABLE_AUDIO_ANALYZER /\ ~audio_live
                THEN <<"audio_detector_unavailable">> ELSE << >>)
            \o (IF host.ENABLE_OBJECT_DETECTOR /\ ~object_live
                THEN <<"object_detector_unavailable">> ELSE << >>)]

\* HealthCheck building the analyzers that are missing again before it answers.
HealthCheck_Retries ==
    /\ started
    /\ face_detector' = IF face_detector = None
                        THEN Some(BuildFaceDetector(host)) ELSE face_detector
    /\ audio_analyzer' = IF audio_analyzer = None
                         THEN Some(BuildAudioAnalyzer(host)) ELSE audio_analyzer
    /\ object_detector' = IF object_detector = None
                          THEN Some(BuildObjectDetector(host)) ELSE object_detector
    /\ health' = Some(HealthAnswer)
    /\ UNCHANGED <<vadvars, host, started, mesh_track, req, pc, loc, files, backend>>

\* GET /health (and GET /capabilities, which answers from it)
HealthCheck ==
    /\ started
    /\ health' = Some(HealthAnswer)
    /\ UNCHANGED <<vadvars, capvars, mesh_track, req, pc, loc, files, backend>>

\* The face side of a host, with the audio and object analyzers up.
FaceHosts ==
    { Host(FALSE, TRUE, TRUE, "opencv", "ok", "ok", "ok", "disabled", "ok"),
      Host(TRUE, TRUE, TRUE, "raises", "ok", "ok", "ok", "disabled", "ok"),
      Host(TRUE, TRUE, TRUE, "mediapipe", "ok", "ok", "ok", "disabled", "ok") }
    \cup { Host(TRUE, TRUE, TRUE, "opencv", f, e, "ok", "disabled", "ok") :
             f \in {"ok", "empty"}, e \in {"ok", "empty"} }
\* The audio side of a host, with the face and object analyzers up.
AudioHosts ==
    { Host(TRUE, FALSE, TRUE, "opencv", "ok", "ok", "ok", "google", "ok"),
      Host(TRUE, TRUE, TRUE, "opencv", "ok", "ok", "raises", "google", "ok"),
      Host(TRUE, TRUE, TRUE, "opencv", "ok", "ok", "ok", "disabled", "ok"),
      Host(TRUE, TRUE, TRUE, "opencv", "ok", "ok", "ok", "google", "ok") }
\* Hosts of the whole service: everything up; the defaults of the flags (face
\* only) with a cascade that did not load; nothing up.
ServiceHosts ==
    { Host(TRUE, TRUE, TRUE, "mediapipe", "ok", "ok", "ok", "google", "ok"),
      Host(TRUE, TRUE, TRUE, "opencv", "ok", "empty", "ok", "disabled", "ok"),
      Host(TRUE, FALSE, FALSE, "opencv", "empty", "ok", "ok", "disabled", "ok"),
      Host(TRUE, TRUE, TRUE, "raises", "ok", "ok", "raises", "google", "raises") }

\* ------------------------------------------------------- temporary files
\* tempfile gives a name no existing file has.
FreshName == CHOOSE n \in 1..(Cardinality(files) + 1) :
                /\ \A f \in files : f.name # n
                /\ \A m \in 1..(n - 1) : \E f \in files : f.name = m
Exists(path) == \E f \in files : f.name = path
Unlink(path) == { f \in files : f.name # path }

\* The answer of a handler that returns.
Response(r, results, violations) ==
    [success |-> TRUE, session_id |-> req[r].session_id,
     timestamp |-> req[r].timestamp, analysis_type |-> req[r].chan,
     results |-> results, violations |-> violations,
     violation_count |-> Len(violations)]

\* ------------------------------------------------- app.py: analyze_audio
\* AudioGate without the test of the analyzer.
AudioGate_NoTest(r) ==
    /\ started /\ pc[r] = "gate" /\ req[r].chan = "audio"
    /\ pc' = [pc EXCEPT ![r] = "read"]
    /\ UNCHANGED <<vadvars, capvars, health, mesh_track, req, loc, files, backend>>

\* Lines 165-166: the gate.  The 503 leaves through `finally`.
AudioGate(r) ==
    /\ started /\ pc[r] = "gate" /\ req[r].chan = "audio"
    /\ IF AudioUnavailable
       THEN /\ loc' = [loc EXCEPT ![r].status = 503]
            /\ pc' = [pc EXCEPT ![r] = "finally"]
       ELSE /\ pc' = [pc EXCEPT ![r] = "read"]
            /\ UNCHANGED loc
    /\ UNCHANGED <<vadvars, capvars, health, mesh_track, req, files, backend>>

\* Line 169: contents = await audio.read(); a failed read is a 500.
AudioRead(r) ==
    /\ pc[r] = "read" /\ req[r].chan = "audio"
    /\ \E ok \in BOOLEAN :
          IF ok
          THEN /\ loc' = [loc EXCEPT ![r].read = TRUE]
               /\ pc' = [pc EXCEPT ![r] = "save"]
          ELSE /\ loc' = [loc EXCEPT ![r].status = 500, ![r].fault = "internal"]
               /\ pc' = [pc EXCEPT ![r] = "finally"]
    /\ UNCHANGED <<vadvars, capvars, health, mesh_track, req, files, backend>>

\* Lines 188-190: NamedTemporaryFile(delete=False) creates the file, then
\* tmp.write(contents), then tmp_path = tmp.name.  The file may not be created
\* at all, or the write may fail with the file there and tmp_path still None.
AudioSave(r) ==
    /\ pc[r] = "save"
    /\ \E outcome \in {"ok", "create fails", "write fails"} :
          /\ files' = IF outcome = "create fails" THEN files
                      ELSE files \cup {[name |-> FreshName, by |-> r, kind |-> "upload"]}
          /\ IF outcome = "ok"
             THEN /\ loc' = [loc EXCEPT ![r].tmp_path = Some(FreshName),
                                        ![r].made = @ + 1]
                  /\ pc' = [pc EXCEPT ![r] = "analyze"]
             ELSE /\ loc' = [loc EXCEPT ![r].status = 500, ![r].fault = "internal",
                                        ![r].made = IF outcome = "write fails"
                                                    THEN @ + 1 ELSE @]
                  /\ pc' = [pc EXCEPT ![r] = "finally"]
    /\ UNCHANGED <<vadvars, capvars, health, mesh_track, req, backend>>

\* -------------------------- audio_analyzer.py: _analyze_audio_sync, by step
\* An exception inside the try block: it leaves through `finally` (cleanup).
Raise(r, next) ==
    /\ loc' = [loc EXCEPT ![r].exc = "raised", ![r].fault = "internal"]
    /\ pc' = [pc EXCEPT ![r] = next]

\* Lines 193, 75-88: the call, the defaults and _load_audio_segment, which
\* raises on an upload pydub cannot decode: except Exception, no file yet.
AnalyzeLoad(r) ==
    /\ pc[r] = "analyze" /\ req[r].chan = "audio"
    /\ IF req[r].payload.decodable
       THEN /\ loc' = [loc EXCEPT ![r].invoked = TRUE,
                                  ![r].results = Some(AudioDefaults(req[r].duration_ms))]
            /\ pc' = [pc EXCEPT ![r] = "mkstemp"]
       ELSE /\ loc' = [loc EXCEPT ![r].invoked = TRUE, ![r].fault = "decode",
                          ![r].results = Some(WithError(AudioDefaults(req[r].duration_ms)))]
            /\ pc' = [pc EXCEPT ![r] = "analyzed"]
    /\ UNCHANGED <<vadvars, capvars, health, mesh_track, req, files, backend>>

\* Lines 91-92: tempfile.mkstemp(suffix='.wav')
AnalyzeMkstemp(r) ==
    /\ pc[r] = "mkstemp"
    /\ files' = files \cup {[name |-> FreshName, by |-> r, kind |-> "wav"]}
    /\ loc' = [loc EXCEPT ![r].tmp_wav_path = Some(FreshName), ![r].made = @ + 1]
    /\ pc' = [pc EXCEPT ![r] = "export"]
    /\ UNCHANGED <<vadvars, capvars, health, mesh_track, req, backend>>

\* Line 94: audio.export(tmp_wav_path, format='wav')
AnalyzeExport(r) ==
    /\ pc[r] = "export"
    /\ \E ok \in BOOLEAN :
          IF ok THEN pc' = [pc EXCEPT ![r] = "load"] /\ UNCHANGED loc
          ELSE Raise(r, "cleanup")
    /\ UNCHANGED <<vadvars, capvars, health, mesh_track, req, files, backend>>

\* Line 97: librosa.load(tmp_wav_path, sr=None)
AnalyzeLibrosaLoad(r) ==
    /\ pc[r] = "load"
    /\ \E ok \in BOOLEAN :
          IF ok THEN pc' = [pc EXCEPT ![r] = "noise"] /\ UNCHANGED loc
          ELSE Raise(r, "cleanup")
    /\ UNCHANGED <<vadvars, capvars, health, mesh_track, req, files, backend>>

\* Lines 100-102: the noise level
AnalyzeNoise(r) ==
    /\ pc[r] = "noise"
    /\ \E ok \in BOOLEAN :
          IF ok
          THEN /\ loc' = [loc EXCEPT ![r].results =
                     Some([@[1] EXCEPT !.noise_level = NoiseLevel(req[r].payload.avg_rms)])]
               /\ pc' = [pc EXCEPT ![r] = "vad"]
          ELSE Raise(r, "cleanup")
    /\ UNCHANGED <<vadvars, capvars, health, mesh_track, req, files, backend>>

\* Lines 105-113: _detect_speech and the local decision.  range(0, n, 0)
\* raises ValueError when hop_length is 0.  Transcription follows only when
\* speech was found and cloud transcription is on.
AnalyzeVad(r) ==
    /\ pc[r] = "vad"
    /\ \E ok \in BOOLEAN :
          IF ok /\ hop_length(req[r].payload.sr) # 0
          THEN LET p == req[r].payload
                   after == AfterVad(loc[r].results[1],
                                     DetectSpeech(p.speech_frames, p.len_y, p.sr))
               IN /\ loc' = [loc EXCEPT ![r].results = Some(after)]
                  /\ pc' = [pc EXCEPT ![r] =
                        IF after.has_speech /\ audio_analyzer[1].enable_cloud_transcription
                        THEN "openwav" ELSE "cleanup"]
          ELSE Raise(r, "cleanup")
    /\ UNCHANGED <<vadvars, capvars, health, mesh_track, req, files, backend>>

\* Lines 115-116: sr.AudioFile(tmp_wav_path) and recognizer.record(source)
AnalyzeOpenWav(r) ==
    /\ pc[r] = "openwav"
    /\ \E ok \in BOOLEAN :
          IF ok THEN pc' = [pc EXCEPT ![r] = "recognize"] /\ UNCHANGED loc
          ELSE Raise(r, "cleanup")
    /\ UNCHANGED <<vadvars, capvars, health, mesh_track, req, files, backend>>

\* _recognize_google_with_timeout, lines 62-68: executor.submit(recognize_google)
RecognizeSubmit(r) ==
    /\ pc[r] = "recognize"
    /\ backend' = [backend EXCEPT ![r] = "running"]
    /\ pc' = [pc EXCEPT ![r] = "await"]
    /\ UNCHANGED <<vadvars, capvars, health, mesh_track, req, loc, files>>

\* The speech backend answers: the transcript, sr.UnknownValueError,
\* sr.RequestError or any other exception.  Nothing makes it answer.
BackendReturn(r) ==
    /\ backend[r] = "running"
    /\ \E out \in {"transcript", "unknown_value", "request_error", "fault"} :
          backend' = [backend EXCEPT ![r] = out]
    /\ UNCHANGED <<vadvars, capvars, health, mesh_track, req, pc, loc, files>>

\* Line 70 with the call finished in time: future.result returns or re-raises,
\* the `with` block's shutdown has nothing to wait for, and lines 121-139 apply.
RecognizeResult(r) ==
    /\ pc[r] = "await" /\ backend[r] # "running"
    /\ LET res == loc[r].results[1]
       IN loc' = [loc EXCEPT
             ![r].stt = backend[r],
             ![r].results = Some(
                 CASE backend[r] = "transcript" ->
                          AfterTranscript(res, req[r].payload.said)
                   [] backend[r] = "unknown_value" -> AfterUnknownValue(res)
                   [] backend[r] = "request_error" -> AfterRequestError(res, ApiFailed)
                   [] OTHER -> res),
             ![r].exc = IF backend[r] = "fault" THEN "raised" ELSE @,
             ![r].fault = IF backend[r] = "fault" THEN "internal" ELSE @]
    /\ pc' = [pc EXCEPT ![r] = "cleanup"]
    /\ UNCHANGED <<vadvars, capvars, health, mesh_track, req, files, backend>>

\* Lines 70-72 with the call still running after timeout_seconds: TimeoutError,
\* RequestError('Speech API timeout') is raised, and the `with` block is left.
RecognizeTimeout(r) ==
    /\ pc[r] = "await" /\ backend[r] = "running"
    /\ loc' = [loc EXCEPT ![r].stt = "timeout"]
    /\ pc' = [pc EXCEPT ![r] = "shutdown"]
    /\ UNCHANGED <<vadvars, capvars, health, mesh_track, req, files, backend>>

\* Line 62: leaving `with ThreadPoolExecutor(...)` calls shutdown(wait=True),
\* which returns when the submitted call has finished.  Then lines 138-139.
ExecutorShutdown(r) ==
    /\ pc[r] = "shutdown" /\ backend[r] # "running"
    /\ loc' = [loc EXCEPT ![r].results =
                  Some(AfterRequestError(@[1], ApiTimeout))]
    /\ pc' = [pc EXCEPT ![r] = "cleanup"]
    /\ UNCHANGED <<vadvars, capvars, health, mesh_track, req, files, backend>>

\* Lines 140-147: finally unlinks the WAV file, except Exception adds 'error',
\* and the record is returned.
AnalyzeCleanup(r) ==
    /\ pc[r] = "cleanup"
    /\ files' = IF Exists(loc[r].tmp_wav_path[1])
                THEN Unlink(loc[r].tmp_wav_path[1]) ELSE files
    /\ loc' = [loc EXCEPT ![r].exc = "none",
                          ![r].results = IF loc[r].exc = "raised"
                                         THEN Some(WithError(@[1])) ELSE @]
    /\ pc' = [pc EXCEPT ![r] = "analyzed"]
    /\ UNCHANGED <<vadvars, capvars, health, mesh_track, req, backend>>

\* Lines 195-239: the violations and the answer.
AudioRespond(r) ==
    /\ pc[r] = "analyzed" /\ req[r].chan = "audio"
    /\ LET violations == AudioViolations(loc[r].results[1])
       IN loc' = [loc EXCEPT ![r].status = 200, ![r].violations = violations,
                     ![r].response = Some(Response(r, loc[r].results[1], violations))]
    /\ pc' = [pc EXCEPT ![r] = "finally"]
    /\ UNCHANGED <<vadvars, capvars, health, mesh_track, req, files, backend>>

\* Lines 245-247: if tmp_path and os.path.exists(tmp_path): os.unlink(tmp_path)
AudioFinally(r) ==
    /\ pc[r] = "finally"
    /\ files' = IF loc[r].tmp_path # None /\ Exists(loc[r].tmp_path[1])
                THEN Unlink(loc[r].tmp_path[1]) ELSE files
    /\ pc' = [pc EXCEPT ![r] = "done"]
    /\ UNCHANGED <<vadvars, capvars, health, mesh_track, req, loc, backend>>

\* -------------------------------------------------- app.py: analyze_face
FaceGate(r) ==
    /\ started /\ pc[r] = "gate" /\ req[r].chan = "face"
    /\ IF FaceUnavailable
       THEN /\ loc' = [loc EXCEPT ![r].status = 503]
            /\ pc' = [pc EXCEPT ![r] = "done"]
       ELSE /\ pc' = [pc EXCEPT ![r] = "read"]
            /\ UNCHANGED loc
    /\ UNCHANGED <<vadvars, capvars, health, mesh_track, req, files, backend>>

\* Line 89: contents = await image.read()
FaceRead(r) ==
    /\ pc[r] = "read" /\ req[r].chan = "face"
    /\ \E ok \in BOOLEAN :
          IF ok
          THEN /\ loc' = [loc EXCEPT ![r].read = TRUE]
               /\ pc' = [pc EXCEPT ![r] = "analyze"]
          ELSE /\ loc' = [loc EXCEPT ![r].status = 500, ![r].fault = "internal"]
               /\ pc' = [pc EXCEPT ![r] = "done"]
    /\ UNCHANGED <<vadvars, capvars, health, mesh_track, req, files, backend>>

\* Line 92: analyze_frame.  An image that cannot be decoded gives the error
\* record; an exception of cv2 or mediapipe on a decoded image is not caught
\* by the analyzer and becomes the handler's 500.  In mediapipe mode a frame
\* with detections goes through self.face_mesh, which answers from what it
\* holds and holds the answer for the next frame, whoever sends it.
FaceAnalyze(r) ==
    /\ pc[r] = "analyze" /\ req[r].chan = "face"
    /\ LET img == req[r].payload
           meshed == /\ img.decodable /\ face_detector[1].mode = "mediapipe"
                     /\ Len(img.detections) > 0
       IN \E ok \in BOOLEAN, m \in MeshOutcomes(mesh_track, img.mesh) :
          /\ meshed \/ m = img.mesh
          /\ IF ok \/ ~img.decodable
             THEN /\ loc' = [loc EXCEPT
                        ![r].invoked = TRUE,
                        ![r].fault = IF img.decodable THEN @ ELSE "decode",
                        ![r].results = Some(AnalyzeFrameSync(face_detector[1].mode,
                                                face_detector[1].eye_cascade = "ok",
                                                [img EXCEPT !.mesh = m]))]
                  /\ pc' = [pc EXCEPT ![r] = "analyzed"]
                  /\ mesh_track' = IF meshed THEN m ELSE mesh_track
             ELSE /\ m = img.mesh
                  /\ loc' = [loc EXCEPT ![r].invoked = TRUE, ![r].status = 500,
                                        ![r].fault = "internal"]
                  /\ pc' = [pc EXCEPT ![r] = "done"]
                  /\ UNCHANGED mesh_track
    /\ UNCHANGED <<vadvars, capvars, health, req, files, backend>>

\* Lines 94-147
FaceRespond(r) ==
    /\ pc[r] = "analyzed" /\ req[r].chan = "face"
    /\ LET violations == FaceViolations(loc[r].results[1])
       IN loc' = [loc EXCEPT ![r].status = 200, ![r].violations = violations,
                     ![r].response = Some(Response(r, loc[r].results[1], violations))]
    /\ pc' = [pc EXCEPT ![r] = "done"]
    /\ UNCHANGED <<vadvars, capvars, health, mesh_track, req, files, backend>>

\* ------------------------------------------------ app.py: analyze_object
ObjectGate(r) ==
    /\ started /\ pc[r] = "gate" /\ req[r].chan = "object"
    /\ IF ObjectUnavailable
       THEN /\ loc' = [loc EXCEPT ![r].status = 503]
            /\ pc' = [pc EXCEPT ![r] = "done"]
       ELSE /\ pc' = [pc EXCEPT ![r] = "read"]
            /\ UNCHANGED loc
    /\ UNCHANGED <<vadvars, capvars, health, mesh_track, req, files, backend>>

ObjectRead(r) ==
    /\ pc[r] = "read" /\ req[r].chan = "object"
    /\ \E ok \in BOOLEAN :
          IF ok
          THEN /\ loc' = [loc EXCEPT ![r].read = TRUE]
               /\ pc' = [pc EXCEPT ![r] = "analyze"]
          ELSE /\ loc' = [loc EXCEPT ![r].status = 500, ![r].fault = "internal"]
               /\ pc' = [pc EXCEPT ![r] = "done"]
    /\ UNCHANGED <<vadvars, capvars, health, mesh_track, req, files, backend>>

\* Line 265: detect_objects, the stub
ObjectDetect(r) ==
    /\ pc[r] = "analyze" /\ req[r].chan = "object"
    /\ loc' = [loc EXCEPT ![r].invoked = TRUE, ![r].results = Some(DetectObjects)]
    /\ pc' = [pc EXCEPT ![r] = "analyzed"]
    /\ UNCHANGED <<vadvars, capvars, health, mesh_track, req, files, backend>>

\* Lines 267-304
ObjectRespond(r) ==
    /\ pc[r] = "analyzed" /\ req[r].chan = "object"
    /\ LET violations == ObjectViolations(loc[r].results[1])
       IN loc' = [loc EXCEPT ![r].status = 200, ![r].violations = violations,
                     ![r].response = Some(Response(r, loc[r].results[1], violations))]
    /\ pc' = [pc EXCEPT ![r] = "done"]
    /\ UNCHANGED <<vadvars, capvars, health, mesh_track, req, files, backend>>

\* ------------------------------------------------------- specifications
AudioStep(r) ==
    \/ AudioGate(r) \/ AudioRead(r) \/ AudioSave(r) \/ AnalyzeLoad(r)
    \/ AnalyzeMkstemp(r) \/ AnalyzeExport(r) \/ AnalyzeLibrosaLoad(r)
    \/ AnalyzeNoise(r) \/ AnalyzeVad(r) \/ AnalyzeOpenWav(r)
    \/ RecognizeSubmit(r) \/ RecognizeResult(r) \/ RecognizeTimeout(r)
    \/ ExecutorShutdown(r) \/ AnalyzeCleanup(r) \/ AudioRespond(r)
    \/ AudioFinally(r)
FaceStep(r) == FaceGate(r) \/ FaceRead(r) \/ FaceAnalyze(r) \/ FaceRespond(r)
ObjectStep(r) == ObjectGate(r) \/ ObjectRead(r) \/ ObjectDetect(r) \/ ObjectRespond(r)

\* The service before app.py is imported, with the given requests to come.
\* The ways to give each of the first n requests one of its requests(r).
RECURSIVE Arrivals(_, _)
Arrivals(requests, n) ==
    IF n = 0 THEN { << >> }
    ELSE { Append(q, x) : q \in Arrivals(requests, n - 1), x \in requests[n] }

InitService(hosts, requests) ==
    /\ NoVad
    /\ host \in hosts
    /\ started = FALSE
    /\ face_detector = None /\ audio_analyzer = None /\ object_detector = None
    /\ req \in Arrivals(requests, NumReqs)
    /\ pc = [r \in Reqs |-> IF req[r].chan = "none" THEN "absent" ELSE "gate"]
    /\ loc = [r \in Reqs |-> LocStart]
    /\ files = {}
    /\ backend = [r \in Reqs |-> "idle"]
    /\ health = None /\ mesh_track = << >>

\* The whole service: NumReqs concurrent requests of any channel.
Init == InitService(ServiceHosts, [r \in Reqs |-> ServiceRequests(r)])
Next ==
    \/ Startup
    \/ HealthCheck
    \/ \E r \in Reqs : AudioStep(r) \/ BackendReturn(r) \/ FaceStep(r) \/ ObjectStep(r)
Spec == Init /\ [][Next]_vars

\* One audio request, over all the audio uploads.
AudioRequests(r) ==
    IF r = 1 THEN { Request("audio", r, p) : p \in AudioPayloads } ELSE {NoRequest}
InitAudio == InitService(AudioHosts, [r \in Reqs |-> AudioRequests(r)])
NextAudio == Startup \/ \E r \in Reqs : AudioStep(r) \/ BackendReturn(r)
SpecAudio == InitAudio /\ [][NextAudio]_vars

\* One face request, over all the images.
FaceRequests(r) ==
    IF r = 1 THEN { Request("face", r, p) : p \in FaceImages } ELSE {NoRequest}
InitFace == InitService(FaceHosts, [r \in Reqs |-> FaceRequests(r)])
NextFace == Startup \/ \E r \in Reqs : FaceStep(r)
SpecFace == InitFace /\ [][NextFace]_vars

\* ------------------------------------------------------------- properties
\* The types of a violation list, in order, and whether it has one of a type.
Types(violations) == [i \in 1..Len(violations) |-> violations[i].type]
Emits(violations, type) == \E i \in 1..Len(violations) : violations[i].type = type

\* The gate of a request's channel is closed.
Unavailable(r) ==
    CASE req[r].chan = "face" -> FaceUnavailable
      [] req[r].chan = "audio" -> AudioUnavailable
      [] req[r].chan = "object" -> ObjectUnavailable
      [] OTHER -> FALSE

\* C1: a request to a channel whose analyzer is None or not ready is answered
\* 503 and nothing of the analysis runs for it: the upload is not read, no
\* temporary file is created, the analyzer is not called.
C1_RejectedBeforeAnalysis ==
    \A r \in Reqs :
        (started /\ Unavailable(r)) =>
            /\ pc[r] \in {"gate", "finally", "done"}
            /\ ~loc[r].read /\ ~loc[r].invoked /\ loc[r].made = 0
            /\ loc[r].results = None
            /\ \A f \in files : f.by # r
            /\ (pc[r] # "gate" => loc[r].status = 503)

\* Two requests of different channels have both been turned away.
C1_Witness ==
    \E r1, r2 \in Reqs :
        /\ req[r1].chan = "audio" /\ req[r2].chan = "face"
        /\ Unavailable(r1) /\ Unavailable(r2)
        /\ pc[r1] = "done" /\ pc[r2] = "done"
        /\ loc[r1].status = 503 /\ loc[r2].status = 503

\* C3: once the transcription timeout has expired the request goes on without
\* waiting for the backend call: a request whose transcription timed out and
\* that has not completed can always take its next step.
C3_TimeoutAbandonsCall ==
    \A r \in Reqs :
        (loc[r].stt = "timeout" /\ pc[r] # "done") => ENABLED AudioStep(r)

\* C4: when an audio request has completed, by any outcome, no temporary file
\* created for it exists.
C4_TempFilesDeleted ==
    \A r \in Reqs : pc[r] = "done" => \A f \in files : f.by # r

\* C5: a record with an 'error' field has every detection field at its default.
C5_ErrorMeansDefaults ==
    \A r \in Reqs :
        (req[r].chan = "audio" /\ loc[r].results # None
           /\ "error" \in DOMAIN loc[r].results[1]) =>
            LET res == loc[r].results[1]
            IN /\ res.has_speech = FALSE /\ res.speech_confidence = 0
               /\ res.voice_count = 0 /\ res.noise_level = 0
               /\ res.transcript = << >> /\ res.suspicious_keywords = << >>
               /\ res.analysis_mode = "local_vad"

\* C6: an unexpected internal fault met while the analyzer runs is answered
\* 500, on the audio channel and on the face channel alike.
C6_InternalFaultIs500 ==
    \A r \in Reqs :
        (pc[r] = "done" /\ loc[r].invoked /\ loc[r].fault = "internal") =>
            loc[r].status = 500

\* Zero faces were found in the image of face request r.
NoFaceFound(r) ==
    \/ ~req[r].payload.decodable
    \/ face_detector[1].mode = "opencv" /\ Len(req[r].payload.faces) = 0
    \/ face_detector[1].mode = "mediapipe" /\ Len(req[r].payload.detections) = 0

\* C7: the violations of a face record never hold both multiple_faces and
\* no_face; multiple_faces is there exactly when face_count > 1 and no_face
\* exactly when face_count = 0 (a missing face_count counts as 0).
C7_FaceCountViolations ==
    \A r \in Reqs :
        (req[r].chan = "face" /\ loc[r].response # None) =>
            LET res == loc[r].response[1].results
                vs == loc[r].response[1].violations
            IN /\ ~(Emits(vs, "multiple_faces") /\ Emits(vs, "no_face"))
               /\ Emits(vs, "multiple_faces") = (Get(res, "face_count", 0) > 1)
               /\ Emits(vs, "no_face") = (Get(res, "face_count", 0) = 0)

\* A frame with two faces, one answered with multiple_faces and looking_away.
C7_Witness ==
    \E r \in Reqs :
        /\ req[r].chan = "face" /\ loc[r].response # None
        /\ loc[r].response[1].results.face_count = 2
        /\ Emits(loc[r].violations, "multiple_faces")
        /\ Emits(loc[r].violations, "looking_away")

\* C8: when no face is found (landmark mode, box mode or an image that cannot
\* be decoded) the record has face_count 0, no gaze_direction, eyes_closed
\* false and face_coverage 0, and the violations are exactly [no_face].
C8_NoFaceOnlyNoFace ==
    \A r \in Reqs :
        (req[r].chan = "face" /\ loc[r].results # None /\ NoFaceFound(r)) =>
            LET res == loc[r].results[1]
            IN /\ Get(res, "face_count", 0) = 0 /\ "face_count" \in DOMAIN res
               /\ Get(res, "gaze_direction", None) = None
               /\ Get(res, "eyes_closed", FALSE) = FALSE
               /\ Get(res, "face_coverage", 0) = 0
               /\ (pc[r] = "done" => Types(loc[r].violations) = <<"no_face">>)

\* Landmark mode: the detector finds nothing where the mesh would find a face.
C8_Witness ==
    \E r \in Reqs :
        /\ req[r].chan = "face" /\ pc[r] = "done" /\ loc[r].status = 200
        /\ req[r].payload.decodable /\ face_detector[1].mode = "mediapipe"
        /\ Len(req[r].payload.detections) = 0 /\ Len(req[r].payload.mesh) > 0
        /\ Types(loc[r].violations) = <<"no_face">>

\* C9: when speech was found and the transcription ends in a timeout or a
\* request error, the request is answered 200 with the local values:
\* local_vad, confidence 0.68, one voice, no keywords, no 'error', the
\* transcript holding only the error marker; no suspicious_conversation.
C9_BackendFailureKeepsLocal ==
    \A r \in Reqs :
        (pc[r] \in {"analyzed", "finally", "done"}
           /\ loc[r].stt \in {"timeout", "request_error"}) =>
            LET res == loc[r].results[1]
            IN /\ res.has_speech /\ res.analysis_mode = "local_vad"
               /\ res.speech_confidence = 680 /\ res.voice_count = 1
               /\ res.suspicious_keywords = << >>
               /\ "error" \notin DOMAIN res
               /\ res.transcript = ApiError(IF loc[r].stt = "timeout"
                                            THEN ApiTimeout ELSE ApiFailed)
               /\ (pc[r] = "done" =>
                     /\ loc[r].status = 200
                     /\ loc[r].response[1].results = res
                     /\ ~Emits(loc[r].violations, "suspicious_conversation"))

\* A clip in which "Help" is said, answered after the transcription timed out.
C9_Witness ==
    \E r \in Reqs :
        /\ pc[r] = "done" /\ loc[r].stt = "timeout"
        /\ Contains(Lower(req[r].payload.said), suspicious_keywords[1])
        /\ Types(loc[r].violations) = <<"speech_detected", "high_background_noise">>

\* C10: suspicious_keywords holds only entries of the watch-list, is empty
\* whenever transcript is empty, and is non-empty only after a transcription
\* that succeeded.
C10_KeywordsFromTranscript ==
    \A r \in Reqs :
        (req[r].chan = "audio" /\ loc[r].results # None) =>
            LET res == loc[r].results[1]
            IN /\ \A i \in 1..Len(res.suspicious_keywords) :
                     \E j \in 1..Len(suspicious_keywords) :
                         res.suspicious_keywords[i] = suspicious_keywords[j]
               /\ (res.transcript = << >> => res.suspicious_keywords = << >>)
               /\ (res.suspicious_keywords # << >> => loc[r].stt = "transcript")

\* "ok.Help" was transcribed: two sentences, and the keyword help.
C10_Witness ==
    \E r \in Reqs :
        /\ pc[r] = "done" /\ loc[r].stt = "transcript"
        /\ loc[r].results[1].suspicious_keywords = <<suspicious_keywords[1]>>
        /\ loc[r].results[1].voice_count = 2
        /\ Emits(loc[r].violations, "suspicious_conversation")

\* The rules in their order, and the predicate of each on a signals record.
FaceRules == <<"multiple_faces", "no_face", "looking_away", "eyes_closed", "face_covered">>
AudioRules ==
    <<"speech_detected", "multiple_voices", "high_background_noise",
      "suspicious_conversation">>
RuleHolds(res, type) ==
    CASE type = "multiple_faces" -> Get(res, "face_count", 0) > 1
      [] type = "no_face" -> Get(res, "face_count", 0) = 0
      [] type = "looking_away" ->
            /\ Get(res, "gaze_direction", None) # None
            /\ res.gaze_direction[1].looking_away
      [] type = "eyes_closed" -> Get(res, "eyes_closed", FALSE)
      [] type = "face_covered" -> Get(res, "face_coverage", 0) > 300
      [] type = "speech_detected" -> Get(res, "has_speech", FALSE)
      [] type = "multiple_voices" -> Get(res, "voice_count", 0) > 1
      [] type = "high_background_noise" -> Get(res, "noise_level", 0) > 700
      [] type = "suspicious_conversation" ->
            Get(res, "suspicious_keywords", << >>) # << >>
      [] OTHER -> FALSE

\* C11: the violations of a face or audio answer are exactly the rules whose
\* predicate holds on the signals record, each once and in the rules' order;
\* the record in the answer is the one the analyzer returned, and
\* violation_count is the length of the list.
C11_RulesInOrder ==
    \A r \in Reqs :
        (req[r].chan \in {"face", "audio"} /\ loc[r].response # None) =>
            LET res == loc[r].results[1]
                out == loc[r].response[1]
                rules == IF req[r].chan = "face" THEN FaceRules ELSE AudioRules
            IN /\ Types(out.violations)
                    = SelectSeq(rules, LAMBDA t : RuleHolds(res, t))
               /\ out.results = res
               /\ out.violation_count = Len(out.violations)
               /\ out.violations = loc[r].violations

\* An audio answer with all four audio violations next to a face answer with
\* four face violations.
C11_Witness ==
    \E r1, r2 \in Reqs :
        /\ req[r1].chan = "audio" /\ loc[r1].response # None
        /\ Types(loc[r1].response[1].violations) = AudioRules
        /\ req[r2].chan = "face" /\ loc[r2].response # None
        /\ Types(loc[r2].response[1].violations)
             = <<"multiple_faces", "looking_away", "eyes_closed", "face_covered">>

\* C12: once app.py is imported the three analyzers are what the import made
\* of them and no step changes them: nothing is built again, a request to an
\* analyzer that is not available ends 503, every health answer reports each
\* analyzer live exactly when it is available, and every face record names
\* the mode the detector was built with.
C12_CapabilitySetOnce ==
    [][started =>
        /\ started'
        /\ face_detector' = face_detector
        /\ audio_analyzer' = audio_analyzer
        /\ object_detector' = object_detector
        /\ face_detector = SafeInit(host.ENABLE_FACE_DETECTOR,
                                    host.face_build = "raises", BuildFaceDetector(host))
        /\ health' # None =>
              health'[1].detectors = [face |-> ~FaceUnavailable,
                                      audio |-> ~AudioUnavailable,
                                      object |-> ~ObjectUnavailable]
        /\ \A r \in Reqs :
              /\ (Unavailable(r) /\ pc[r] # "done" /\ pc'[r] = "done")
                    => loc'[r].status = 503
              /\ (req[r].chan = "face" /\ loc'[r].results # None
                     /\ "detector_mode" \in DOMAIN loc'[r].results[1])
                    => loc'[r].results[1].detector_mode = face_detector[1].mode
    ]_vars

\* The face detector failed to build: a health answer says so after a face
\* request was turned away, and another request is still to come.
C12_Witness ==
    /\ started /\ host.ENABLE_FACE_DETECTOR /\ face_detector = None
    /\ health # None /\ ~health[1].detectors.face
    /\ health[1].degraded_reasons[1] = "face_detector_unavailable"
    /\ \E r1, r2 \in Reqs :
          /\ req[r1].chan = "face" /\ pc[r1] = "done" /\ loc[r1].status = 503
          /\ req[r2].chan = "face" /\ pc[r2] = "gate"

\* A landmark set is of the face a detection boxes when most of its key
\* landmarks lie inside the box.
SameFace(detection, landmarks) ==
    2 * CalculateFaceCoverage(landmarks, detection) < 1000

\* C13: in landmark mode with at least one detection, face_count is the
\* number of detections, confidence and face_box are those of the detection
\* with the highest score, and gaze_direction, eyes_closed and face_coverage
\* come from a landmark set of that same face: nothing is reported from the
\* landmarks of another face.
C13_PrimaryFaceConsistent ==
    \A r \in Reqs :
        (/\ req[r].chan = "face" /\ loc[r].results # None
         /\ req[r].payload.decodable /\ face_detector[1].mode = "mediapipe"
         /\ Len(req[r].payload.detections) > 0) =>
            LET img == req[r].payload
                res == loc[r].results[1]
                primary == CHOOSE d \in {img.detections[i] : i \in 1..Len(img.detections)} :
                              \A i \in 1..Len(img.detections) : img.detections[i].score <= d.score
                own == {i \in 1..Len(img.mesh) : SameFace(primary, img.mesh[i])}
            IN /\ res.face_count = Len(img.detections)
               /\ res.confidence = primary.score
               /\ res.face_box[1].width = primary.width
               /\ res.face_box[1].x_center = primary.xmin + primary.width \div 2
               /\ res.face_box[1].y_center = primary.ymin + primary.height \div 2
               /\ IF own = {}
                  THEN /\ res.gaze_direction = None /\ ~res.eyes_closed
                       /\ res.face_coverage = 0
                  ELSE \E i \in own :
                          /\ res.gaze_direction = Some(AnalyzeGazeDirection(img.mesh[i]))
                          /\ res.eyes_closed = CheckEyesClosed(img.mesh[i])
                          /\ res.face_coverage
                               = CalculateFaceCoverage(img.mesh[i], primary)

\* What the analysis of request r's own upload gives on a detector that has
\* served no other request.
OwnSignals(r) ==
    CASE req[r].chan = "face" ->
            AnalyzeFrameSync(face_detector[1].mode,
                             face_detector[1].eye_cascade = "ok", req[r].payload)
      [] req[r].chan = "object" -> DetectObjects
      [] OTHER -> loc[r].results[1]

\* C14: whatever the interleaving, an answer echoes its own request's session
\* id and timestamp, its signals are those of its own upload alone and its
\* violations those of its signals, the temporary files of two requests are
\* distinct, and a file is deleted only by a step of the request it was
\* created for.
C14_RequestsIsolated ==
    [][/\ \A r \in Reqs :
             (loc'[r].response # None /\ loc[r].response = None) =>
                /\ loc'[r].response[1].session_id = req[r].session_id
                /\ loc'[r].response[1].timestamp = req[r].timestamp
                /\ loc'[r].response[1].results = OwnSignals(r)'
                /\ req[r].chan = "audio" =>
                      /\ loc'[r].results[1].noise_level
                           \in {0, NoiseLevel(req[r].payload.avg_rms)}
                      /\ loc'[r].results[1].transcript
                           \in {<< >>, Lower(req[r].payload.said), Unintelligible,
                                ApiError(ApiTimeout), ApiError(ApiFailed)}
       /\ \A f, g \in files' : f.name = g.name => f = g
       /\ \A f \in files : f \notin files' => pc'[f.by] # pc[f.by]
       /\ \A f \in files' : f \notin files => pc'[f.by] # pc[f.by]
    ]_vars

\* C15: an audio answer whose record has has_speech false has voice_count 0,
\* an empty transcript and no keywords, no transcription was started for it,
\* and its violations are [high_background_noise] with confidence 0.65 when
\* noise_level > 0.7 and empty otherwise.
C15_NoSpeechOnlyNoise ==
    \A r \in Reqs :
        (/\ req[r].chan = "audio" /\ loc[r].response # None
         /\ ~loc[r].response[1].results.has_speech) =>
            LET res == loc[r].response[1].results
            IN /\ res.voice_count = 0 /\ res.transcript = << >>
               /\ res.suspicious_keywords = << >>
               /\ backend[r] = "idle" /\ loc[r].stt = "none"
               /\ loc[r].response[1].violations
                    = IF res.noise_level > 700
                      THEN <<[type |-> "high_background_noise", confidence |-> 650]>>
                      ELSE << >>

\* "Help" said for 100 ms over noise of 0.75, with cloud transcription on:
\* answered with high_background_noise alone.
C15_Witness ==
    \E r \in Reqs :
        /\ req[r].chan = "audio" /\ pc[r] = "done" /\ loc[r].status = 200
        /\ audio_analyzer[1].enable_cloud_transcription
        /\ req[r].payload.said = <<"H","e","l","p">>
        /\ ~loc[r].response[1].results.has_speech
        /\ loc[r].response[1].results.noise_level = 750
        /\ Types(loc[r].response[1].violations) = <<"high_background_noise">>

\* What the claim says of a box centre x (thousandths of the frame width).
AwayAt(x) == Abs(x - 500) > 120
DirectionAt(x) == IF ~AwayAt(x) THEN "center" ELSE IF x < 500 THEN "left" ELSE "right"

\* C16: in box mode looking_away is true exactly when the centre of the
\* primary box lies more than 0.12 of the frame width from the middle,
\* direction is left or right of the middle then and centre otherwise, for
\* every centre in [0, 1] (0.5: not away; 0.7: away, right), and the
\* looking_away violation is in the answer exactly when looking_away is true.
C16_BoxGaze ==
    \A r \in Reqs :
          (/\ req[r].chan = "face" /\ loc[r].results # None
           /\ req[r].payload.decodable /\ face_detector[1].mode = "opencv"
           /\ Len(req[r].payload.faces) > 0) =>
              LET img == req[r].payload
                  res == loc[r].results[1]
                  gaze == res.gaze_direction[1]
                  largest == {i \in 1..Len(img.faces) :
                                \A j \in 1..Len(img.faces) :
                                    BoxAreas(img.faces)[j] <= BoxAreas(img.faces)[i]}
              IN /\ \E i \in largest :
                       LET twice == 2 * img.faces[i][1] + img.faces[i][3]
                           away == 100 * Abs(twice - img.frame_w) > 24 * img.frame_w
                       IN /\ gaze.looking_away = away
                          /\ gaze.direction =
                                IF ~away THEN "center"
                                ELSE IF twice < img.frame_w THEN "left" ELSE "right"
                          /\ 2 * img.frame_w * res.face_box[1].x_center <= 1000 * twice
                          /\ 1000 * twice < 2 * img.frame_w * (res.face_box[1].x_center + 1)
                 /\ loc[r].response # None =>
                       /\ Emits(loc[r].response[1].violations, "looking_away")
                            = gaze.looking_away
                       /\ \A x \in 0..1000 :
                             /\ GazeFromFaceBox(x).looking_away = AwayAt(x)
                             /\ GazeFromFaceBox(x).direction = DirectionAt(x)

\* Box mode: a face centred at 0.62 answered without looking_away.
C16_Witness ==
    \E r \in Reqs :
        /\ req[r].chan = "face" /\ pc[r] = "done" /\ loc[r].status = 200
        /\ face_detector[1].mode = "opencv"
        /\ req[r].payload.faces = << <<84, 60, 80, 80>> >>
        /\ loc[r].response[1].results.face_box[1].x_center = 620
        /\ loc[r].response[1].results.gaze_direction[1].direction = "center"
        /\ ~Emits(loc[r].response[1].violations, "looking_away")

\* The number of key landmarks of a landmark set that lie outside a box.
Outside(landmarks, bbox) ==
    Cardinality({i \in 1..Len(key_landmarks) :
        LET lm == landmarks[key_landmarks[i]]
        IN \/ lm.x < bbox.xmin \/ lm.x > bbox.xmin + bbox.width
           \/ lm.y < bbox.ymin \/ lm.y > bbox.ymin + bbox.height})

\* C17: a box-mode record has face_coverage 0 or 0.2 and its answer never has
\* face_covered; a landmark-mode record made with landmarks has face_coverage
\* k/7, k the number of the 7 key landmarks outside the box of the
\* highest-scoring detection, and its answer has face_covered exactly when
\* k >= 3; made without landmarks it has face_coverage 0 and no face_covered.
C17_CoveredOnlyFromLandmarks ==
    \A r \in Reqs :
        (req[r].chan = "face" /\ loc[r].response # None) =>
            LET img == req[r].payload
                res == loc[r].response[1].results
                covered == Emits(loc[r].response[1].violations, "face_covered")
                cov == Get(res, "face_coverage", 0)
            IN IF face_detector[1].mode = "opencv"
               THEN cov \in {0, 200} /\ ~covered
               ELSE IF ~img.decodable \/ Len(img.detections) = 0 \/ Len(img.mesh) = 0
               THEN cov = 0 /\ ~covered
               ELSE \E i \in 1..Len(img.mesh) :
                       LET best == img.detections[ArgMax(Scores(img.detections))]
                           k == Outside(img.mesh[i], best)
                       IN /\ 1000 * k <= 7 * cov /\ 7 * cov < 1000 * k + 7
                          /\ covered = (k >= 3)

\* Landmark mode: three of the seven key landmarks outside the box, and the
\* answer has face_covered.
C17_Witness ==
    \E r \in Reqs :
        /\ req[r].chan = "face" /\ loc[r].response # None
        /\ face_detector[1].mode = "mediapipe"
        /\ req[r].payload.detections = <<NearFace>>
        /\ Outside(req[r].payload.mesh[1], NearFace) = 3
        /\ loc[r].response[1].results.face_coverage = 429
        /\ Types(loc[r].response[1].violations) = <<"face_covered">>

====
